---- MODULE Spec2Model ----
(***************************************************************************)
(* State-machine model of the MedBill AI backend: the document upload /   *)
(* reprocess pipeline (routers/documents.py, services/billing_service.py) *)
(* and the billing-note review store (routers/billing_notes.py).          *)
(*                                                                         *)
(* Each request runs on its own database session.  A request's steps are  *)
(* the stretches of its handler between two awaits; steps of different    *)
(* requests interleave.  A session sees the committed rows plus its own    *)
(* flushed rows; its flushed rows reach the tables at commit.             *)
(***************************************************************************)
EXTENDS Integers, Sequences, FiniteSets, TLC

VARIABLES
    documents,   \* committed Document rows
    storage,     \* paths of the objects held by object storage
    localFiles,  \* paths of the files on local disk
    notes,       \* committed BillingNote rows
    codes,       \* committed ExtractedCode rows
    diags,       \* committed ExtractedDiagnosis rows
    req,         \* the pipeline requests (upload / reprocess), by arrival number
    extractorCalls, \* log: Document id -> number of Text Extractor invocations
    nextId,      \* source of identities for manually added rows
    adds,        \* manual-add requests between their note check and their insert
    last,        \* the review store's last answered request
    call         \* a call of a side-effect-free operation: its input and its result

vars == <<documents, storage, localFiles, notes, codes, diags, req,
          extractorCalls, nextId, adds, last, call>>

----------------------------------------------------------------------------
(* Bounds of the model *)

\* number of pipeline requests that arrive
MaxReq == 3
\* number of manually added child rows
MaxAdds == 1
\* number of requests the review store serves
MaxOps == 3
\* number of procedure entries, and of diagnosis entries, in an extraction result
MaxEntries == 2
\* number of content blocks in an answer of the extraction service
MaxBlocks == 2
MaxPages == 4
MaxNotes == 2

NULL == "NULL"

\* no side-effect-free operation has been called
NoCall == [fn |-> "none"]

ReqIds == 1..MaxReq

----------------------------------------------------------------------------
(* Inputs *)

\* An uploaded file: whether pdfplumber can open it, and its pages' texts.
GoodPdf == [readable |-> TRUE, pages |-> <<"A", "">>]
BlankPdf == [readable |-> TRUE, pages |-> <<"">>]
CorruptPdf == [readable |-> FALSE, pages |-> <<"A">>]
Contents == {GoodPdf, BlankPdf, CorruptPdf}

\* File names, as sequences of characters; <<>> is a missing or empty name.
PdfName == <<"a", ".", "p", "d", "f">>
UpperPdfName == <<"A", ".", "P", "D", "F">>
TxtName == <<"a", ".", "t", "x", "t">>
FileNames == {UpperPdfName, TxtName, <<>>}

\* str.lower() on the characters that occur
LowerChar(c) ==
    CASE c = "A" -> "a"
      [] c = "P" -> "p"
      [] c = "D" -> "d"
      [] c = "F" -> "f"
      [] OTHER -> c

Lower(s) == [i \in 1..Len(s) |-> LowerChar(s[i])]

EndsWith(s, suffix) ==
    /\ Len(s) >= Len(suffix)
    /\ SubSeq(s, Len(s) - Len(suffix) + 1, Len(s)) = suffix

DotPdf == <<".", "p", "d", "f">>

\* A filename check that compares the suffix without lower-casing the name.
FilenameRejectedCaseSensitive(fn) == fn = <<>> \/ ~EndsWith(fn, DotPdf)

\* documents.py:37  not file.filename or not file.filename.lower().endswith(".pdf")
FilenameRejected(fn) == fn = <<>> \/ ~EndsWith(Lower(fn), DotPdf)

\* hashlib.sha256(content).hexdigest(): distinct contents, distinct digests
Sha256(content) == <<"sha256", content>>

\* f"{file_id}_{file.filename}"
SafeFilename(id, fn) == <<id, "_", fn>>
\* f"pdfs/{safe_filename}"
StoragePath(id, fn) == <<"pdfs/", SafeFilename(id, fn)>>
\* os.path.join(settings.UPLOAD_DIR, safe_filename)
LocalPath(id, fn) == <<"uploads/", SafeFilename(id, fn)>>
\* document.file_path.startswith("pdfs/")
IsStoragePath(p) == p[1] = "pdfs/"

----------------------------------------------------------------------------
(* Text Extractor: services/pdf_service.py *)

\* A pages_text with a segment for every page, with text or without.
PagesTextEveryPage(pages, i) ==
    [j \in 1..Len(pages) |-> [marker |-> j, text |-> pages[j]]]

RECURSIVE PagesText(_, _)
\* pages_text: one segment per page with text, carrying the page's 1-based number
PagesText(pages, i) ==
    IF i > Len(pages) THEN <<>>
    ELSE IF pages[i] # ""
         THEN <<[marker |-> i, text |-> pages[i]]>> \o PagesText(pages, i + 1)
         ELSE PagesText(pages, i + 1)

\* extracted_text: None, or a text made of page segments (no segment: "")
NoneText == [isNone |-> TRUE, segs |-> <<>>]
Text(segs) == [isNone |-> FALSE, segs |-> segs]

\* extract_text_from_pdf(file_path): fails when pdfplumber cannot open the path
\* (no such local file, or not a readable PDF), else (full_text, page_count).
extract_text_from_pdf(path, files) ==
    IF \E f \in files : f.path = path /\ f.content.readable
    THEN LET content == (CHOOSE f \in files : f.path = path).content
         IN  [ok |-> TRUE, text |-> Text(PagesText(content.pages, 1)),
              page_count |-> Len(content.pages)]
    ELSE [ok |-> FALSE, text |-> NoneText, page_count |-> 0]

\* `not document.extracted_text`: None and the empty text are both falsy
TextMissing(text) == text.isNone \/ text.segs = <<>>

----------------------------------------------------------------------------
(* Reference Code Repository and the extraction results *)

CPTCodes == {[id |-> "cpt-1", code |-> "99213"], [id |-> "cpt-2", code |-> "G0452"]}
ICD10Codes == {[id |-> "icd-1", code |-> "G40.909"], [id |-> "icd-2", code |-> "R51"]}

\* width of the cpt_code_raw column
RawCodeMaxLen == 10

\* Mutant of CptRef: the code is trimmed and upper-cased before the lookup.
CptRefNormalised(raw) ==
    LET key == IF raw \in {"g0452", "G0452 "} THEN "G0452" ELSE raw
    IN  IF \E c \in CPTCodes : c.code = key
        THEN (CHOOSE c \in CPTCodes : c.code = key).id
        ELSE NULL

\* cpt_lookup.get(proc.cpt_code): the row whose code is the key, else None
CptRef(raw) ==
    IF \E c \in CPTCodes : c.code = raw
    THEN (CHOOSE c \in CPTCodes : c.code = raw).id
    ELSE NULL

\* icd_lookup.get(diag.icd10_code)
IcdRef(raw) ==
    IF \E c \in ICD10Codes : c.code = raw
    THEN (CHOOSE c \in ICD10Codes : c.code = raw).id
    ELSE NULL

\* uuid.uuid4(): an identity no other row has; request r's k-th identity of a kind
Uuid4(kind, r, k) == <<kind, r, k>>

\* _create_extracted_codes: one ExtractedCode per procedure entry
CreateExtractedCodes(r, noteId, extraction) ==
    { [id |-> Uuid4("code", r, i),
       billing_note_id |-> noteId,
       cpt_code_id |-> CptRef(extraction.procedures[i].cpt_code),
       cpt_code_raw |-> extraction.procedures[i].cpt_code,
       description |-> extraction.procedures[i].description,
       confirmed |-> FALSE] : i \in 1..Len(extraction.procedures) }

\* Mutant of CreateExtractedDiagnoses: only the first diagnosis reported as
\* primary is stored as primary.
CreateExtractedDiagnosesOnePrimary(r, noteId, extraction) ==
    { [id |-> Uuid4("diag", r, i),
       billing_note_id |-> noteId,
       icd10_code_id |-> IcdRef(extraction.diagnoses[i].icd10_code),
       icd10_code_raw |-> extraction.diagnoses[i].icd10_code,
       description |-> extraction.diagnoses[i].description,
       is_primary |-> /\ extraction.diagnoses[i].is_primary
                      /\ \A j \in 1..(i - 1) : ~extraction.diagnoses[j].is_primary] :
      i \in 1..Len(extraction.diagnoses) }

\* _create_extracted_diagnoses: one ExtractedDiagnosis per diagnosis entry
CreateExtractedDiagnoses(r, noteId, extraction) ==
    { [id |-> Uuid4("diag", r, i),
       billing_note_id |-> noteId,
       icd10_code_id |-> IcdRef(extraction.diagnoses[i].icd10_code),
       icd10_code_raw |-> extraction.diagnoses[i].icd10_code,
       description |-> extraction.diagnoses[i].description,
       is_primary |-> extraction.diagnoses[i].is_primary] : i \in 1..Len(extraction.diagnoses) }

\* A BillingNote whose identity is taken from its Document: one note per
\* Document, whichever request makes it.
NewBillingNoteOfDocument(r, docId, extraction) ==
    [id |-> Uuid4("note", docId[2], 1),
     document_id |-> docId,
     patient_name |-> extraction.patient_name,
     status |-> "draft"]

\* BillingNote(id=uuid4(), document_id=..., patient_name=..., status="draft")
NewBillingNote(r, docId, extraction) ==
    [id |-> Uuid4("note", r, 1),
     document_id |-> docId,
     patient_name |-> extraction.patient_name,
     status |-> "draft"]

\* The database refuses a flush that holds a code string wider than its column.
FlushRejected(rows) == \E c \in rows : Len(c.cpt_code_raw) > RawCodeMaxLen

Proc(code) == [cpt_code |-> code, description |-> "d"]
Diag(code, primary) == [icd10_code |-> code, description |-> "d", is_primary |-> primary]

\* The answers of the extraction service that the pipeline is run against.
MatchedExtraction ==
    [patient_name |-> "Ann", procedures |-> <<Proc("99213")>>,
     diagnoses |-> <<Diag("G40.909", TRUE)>>]
UnmatchedExtraction ==
    [patient_name |-> NULL, procedures |-> <<Proc("g0452")>>, diagnoses |-> <<>>]
OverlongExtraction ==
    [patient_name |-> "Ann", procedures |-> <<Proc("99213-25-59")>>,
     diagnoses |-> <<Diag("r51", FALSE)>>]
Extractions == {MatchedExtraction, OverlongExtraction}

----------------------------------------------------------------------------
(* Pipeline requests: routers/documents.py, services/billing_service.py *)

NoId == <<"none">>
NoPath == <<>>
NoExtraction == [patient_name |-> NULL, procedures |-> <<>>, diagnoses |-> <<>>]

DocIds == {Uuid4("doc", r, 1) : r \in ReqIds}

\* A request that has not arrived yet.
NewRequest ==
    [pc |-> "new", kind |-> "none", filename |-> <<>>, content |-> BlankPdf,
     doc |-> NoId, path |-> NoPath, text |-> NoneText, page_count |-> -1,
     dirtyText |-> FALSE, ext |-> NoExtraction,
     pendNotes |-> {}, pendCodes |-> {}, pendDiags |-> {},
     sessOk |-> TRUE, failedAt |-> "none", status |-> 0,
     respDoc |-> NoId, respNote |-> NoId, log |-> <<>>,
     clientCalls |-> 0, extractorRuns |-> 0, sawText |-> FALSE, solo |-> FALSE]

DocRow(id) == CHOOSE d \in documents : d.id = id

\* Log: does request r arrive while no other request is being served?
Solo(r) == \A o \in ReqIds \ {r} : req[o].pc \in {"new", "done"}

\* Requests are numbered in their order of arrival.
MayArrive(r) == req[r].pc = "new" /\ (IF r = 1 THEN TRUE ELSE req[r - 1].pc # "new")

\* The rows of `docs` after an UPDATE of row `id` that sets the dirty columns.
UpdateDocument(docs, id, setText, text, page_count, setPath, path) ==
    { IF d.id = id
      THEN [d EXCEPT !.extracted_text = IF setText THEN text ELSE @,
                     !.page_count = IF setText THEN page_count ELSE @,
                     !.file_path = IF setPath THEN path ELSE @]
      ELSE d : d \in docs }

\* The effects of an upload on the stores, as its log names them.
UploadEffects == <<"storage", "local", "insert", "process", "rewrite", "remove">>

\* A request that has answered: its session and its local variables are gone.
Finished(q, status) ==
    [NewRequest EXCEPT !.pc = "done", !.kind = q.kind, !.doc = q.doc, !.status = status,
                       !.failedAt = q.failedAt, !.respDoc = q.respDoc,
                       !.respNote = q.respNote, !.log = q.log,
                       !.clientCalls = q.clientCalls, !.extractorRuns = q.extractorRuns,
                       !.sawText = q.sawText, !.sessOk = q.sessOk, !.solo = q.solo,
                       !.ext = q.ext]

\* upload_document, lines 37-49: the filename check, the content hash and the
\* lookup of a Document with that hash.
UploadArrive(r) ==
    /\ MayArrive(r)
    /\ \E fn \in FileNames, content \in Contents :
         LET same == {d \in documents : d.file_hash = Sha256(content)}
             base == [req[r] EXCEPT !.kind = "upload", !.filename = fn, !.content = content,
                                    !.solo = Solo(r)]
         IN  req' = [req EXCEPT ![r] =
                 IF FilenameRejected(fn)
                 THEN [Finished(base, 400) EXCEPT !.filename = fn]
                 ELSE IF Cardinality(same) > 1
                 THEN \* scalar_one_or_none() raises MultipleResultsFound
                      [Finished(base, 500) EXCEPT !.filename = fn, !.content = content]
                 ELSE IF Cardinality(same) = 1
                 THEN [Finished([base EXCEPT !.respDoc = (CHOOSE d \in same : TRUE).id], 200)
                          EXCEPT !.filename = fn, !.content = content]
                 ELSE [base EXCEPT !.pc = "u_store", !.doc = Uuid4("doc", r, 1)]]
    /\ UNCHANGED <<documents, storage, localFiles, notes, codes, diags,
                   extractorCalls, nextId, adds, last>>
    /\ UNCHANGED call

\* upload_document, lines 51-61: the object is written to storage.
UploadStore(r) ==
    /\ req[r].pc = "u_store"
    /\ storage' = storage \cup {StoragePath(req[r].doc, req[r].filename)}
    /\ req' = [req EXCEPT ![r] = [@ EXCEPT !.pc = "u_local", !.log = Append(@, "storage")]]
    /\ UNCHANGED <<documents, localFiles, notes, codes, diags,
                   extractorCalls, nextId, adds, last>>
    /\ UNCHANGED call

\* upload_document, lines 56-61: the storage service refuses the upload; the
\* error leaves the handler.
UploadStoreFails(r) ==
    /\ req[r].pc = "u_store"
    /\ req' = [req EXCEPT ![r] = Finished(@, 500)]
    /\ UNCHANGED <<documents, storage, localFiles, notes, codes, diags,
                   extractorCalls, nextId, adds, last>>
    /\ UNCHANGED call

\* upload_document, lines 63-67: the transient local copy is written.
UploadLocal(r) ==
    /\ req[r].pc = "u_local"
    /\ localFiles' = localFiles \cup
           {[path |-> LocalPath(req[r].doc, req[r].filename), content |-> req[r].content]}
    /\ req' = [req EXCEPT ![r] = [@ EXCEPT !.pc = "u_insert", !.log = Append(@, "local"),
                                           !.path = LocalPath(req[r].doc, req[r].filename)]]
    /\ UNCHANGED <<documents, storage, notes, codes, diags,
                   extractorCalls, nextId, adds, last>>
    /\ UNCHANGED call

\* upload_document, lines 69-77: the Document row is inserted and committed,
\* pointing at the local path.  No constraint of the table refuses a second row
\* with the same file_hash.
UploadInsert(r) ==
    /\ req[r].pc = "u_insert"
    /\ documents' = documents \cup
           {[id |-> req[r].doc, filename |-> req[r].filename, file_path |-> req[r].path,
             file_hash |-> Sha256(req[r].content),
             extracted_text |-> NoneText, page_count |-> -1]}
    /\ req' = [req EXCEPT ![r] = [@ EXCEPT !.pc = "p_lookup", !.log = Append(@, "insert")]]
    /\ UNCHANGED <<storage, localFiles, notes, codes, diags,
                   extractorCalls, nextId, adds, last>>
    /\ UNCHANGED call

\* What a failed processing attempt leaves of request q: the upload handler
\* swallows the error and goes on (lines 80-83), the reprocess handler answers
\* 500 (lines 135-139) and its session is closed without a commit.
ProcFail(q, stage) ==
    IF q.kind = "upload"
    THEN [q EXCEPT !.pc = "u_rewrite", !.failedAt = stage]
    ELSE Finished([q EXCEPT !.failedAt = stage], 500)

\* A flush that the database refuses rolls the session's transaction back; the
\* session takes no further statement until it is rolled back explicitly.
FlushFailed(q) ==
    [q EXCEPT !.sessOk = FALSE, !.dirtyText = FALSE,
              !.pendNotes = {}, !.pendCodes = {}, !.pendDiags = {}]

\* process_document, lines 24-27, called from the upload: the Document is read.
ProcLookup(r) ==
    /\ req[r].pc = "p_lookup"
    /\ req' = [req EXCEPT ![r] =
           IF \E d \in documents : d.id = req[r].doc
           THEN [@ EXCEPT !.pc = "p_text", !.text = DocRow(req[r].doc).extracted_text,
                          !.sawText = ~TextMissing(DocRow(req[r].doc).extracted_text),
                          !.log = Append(@, "process")]
           ELSE ProcFail([@ EXCEPT !.log = Append(@, "process")], "lookup")]
    /\ UNCHANGED <<documents, storage, localFiles, notes, codes, diags,
                   extractorCalls, nextId, adds, last>>
    /\ UNCHANGED call

\* reprocess_document, lines 130-133 (and process_document, lines 24-27, which
\* finds the same row in the same session): the Document is read, 404 if absent.
ReprocessArrive(r) ==
    /\ MayArrive(r)
    /\ \E id \in DocIds :
         req' = [req EXCEPT ![r] =
             IF \E d \in documents : d.id = id
             THEN [@ EXCEPT !.kind = "reprocess", !.doc = id, !.pc = "p_text",
                            !.solo = Solo(r),
                            !.path = DocRow(id).file_path,
                            !.text = DocRow(id).extracted_text,
                            !.sawText = ~TextMissing(DocRow(id).extracted_text)]
             ELSE Finished([@ EXCEPT !.kind = "reprocess", !.doc = id], 404)]
    /\ UNCHANGED <<documents, storage, localFiles, notes, codes, diags,
                   extractorCalls, nextId, adds, last>>
    /\ UNCHANGED call

\* Mutant of ExtractorNeeded: the extractor is run on every attempt.
ExtractorAlways(q) == TRUE

\* process_document, line 30: is the Text Extractor to be run?
ExtractorNeeded(q) == TextMissing(q.text)

\* process_document, lines 29-34: text extraction, when the Document has no text.
ProcText(r) ==
    /\ req[r].pc = "p_text"
    /\ IF ExtractorNeeded(req[r])
       THEN LET out == extract_text_from_pdf(req[r].path, localFiles)
            IN  /\ extractorCalls' = [extractorCalls EXCEPT ![req[r].doc] = @ + 1]
                /\ req' = [req EXCEPT ![r] =
                       IF out.ok
                       THEN [@ EXCEPT !.pc = "p_client", !.text = out.text,
                                      !.page_count = out.page_count, !.dirtyText = TRUE,
                                      !.extractorRuns = @ + 1]
                       ELSE ProcFail([@ EXCEPT !.extractorRuns = @ + 1], "text")]
       ELSE /\ req' = [req EXCEPT ![r] = [@ EXCEPT !.pc = "p_client"]]
            /\ UNCHANGED extractorCalls
    /\ UNCHANGED <<documents, storage, localFiles, notes, codes, diags,
                   nextId, adds, last>>
    /\ UNCHANGED call

\* process_document, lines 39-61, on the session of request q holding the
\* extraction result e: the BillingNote is added and flushed, then the child
\* rows are added; the ExtractedCode rows are flushed by the query of
\* _create_extracted_diagnoses (line 107).
CreateRows(r, q, e) ==
    LET note == NewBillingNote(r, q.doc, e)
        newCodes == CreateExtractedCodes(r, note.id, e)
    IN  IF FlushRejected(newCodes)
        THEN ProcFail(FlushFailed(q), "rows")
        ELSE [q EXCEPT !.pc = "p_commit", !.ext = e,
                       !.pendNotes = {note}, !.pendCodes = newCodes,
                       !.pendDiags = CreateExtractedDiagnoses(r, note.id, e)]

\* process_document, lines 36-61: the extraction client answers with one of
\* `answers`, from which the note and its children are made in the session.
ProcClientWith(r, answers) ==
    /\ req[r].pc = "p_client"
    /\ \E e \in answers :
         req' = [req EXCEPT ![r] = CreateRows(r, [@ EXCEPT !.clientCalls = @ + 1], e)]
    /\ UNCHANGED <<documents, storage, localFiles, notes, codes, diags,
                   extractorCalls, nextId, adds, last>>
    /\ UNCHANGED call

ProcClient(r) == ProcClientWith(r, Extractions)

\* Mutant of ProcClientFails: the BillingNote is added to the session before
\* the extraction client is called.
ProcClientFailsAfterNote(r) ==
    /\ req[r].pc = "p_client"
    /\ req' = [req EXCEPT ![r] =
           ProcFail([@ EXCEPT !.clientCalls = @ + 1,
                              !.pendNotes = {NewBillingNote(r, req[r].doc, NoExtraction)}],
                    "client")]
    /\ UNCHANGED <<documents, storage, localFiles, notes, codes, diags,
                   extractorCalls, nextId, adds, last>>
    /\ UNCHANGED call

\* process_document, lines 36-37: the extraction client raises (service error,
\* or no valid extraction in the answer).
ProcClientFails(r) ==
    /\ req[r].pc = "p_client"
    /\ req' = [req EXCEPT ![r] = ProcFail([@ EXCEPT !.clientCalls = @ + 1], "client")]
    /\ UNCHANGED <<documents, storage, localFiles, notes, codes, diags,
                   extractorCalls, nextId, adds, last>>
    /\ UNCHANGED call

\* The Document rows after request q's session commits: the dirty columns of
\* its Document are written.
CommittedDocs(q, setPath, path) ==
    UpdateDocument(documents, q.doc, q.dirtyText, q.text, q.page_count, setPath, path)

\* Mutant of CommittedNotes: the new note takes the place of the Document's
\* earlier notes.
CommittedNotesReplacing(q) ==
    {n \in notes : n.document_id # q.doc} \cup q.pendNotes

\* The BillingNote rows after request q's session commits: the note added at
\* lines 40-50 is inserted.
CommittedNotes(q) == notes \cup q.pendNotes

\* process_document, lines 65-74: the note is read with its children
\* (selectinload of extracted_codes and extracted_diagnoses).
ReloadNote(id) ==
    [note |-> {n \in notes : n.id = id},
     extracted_codes |-> {c \in codes : c.billing_note_id = id},
     extracted_diagnoses |-> {g \in diags : g.billing_note_id = id}]

\* process_document, lines 63-74: commit, and the note is read back.
ProcCommit(r) ==
    /\ req[r].pc = "p_commit"
    /\ documents' = CommittedDocs(req[r], FALSE, NoPath)
    /\ notes' = CommittedNotes(req[r])
    /\ codes' = codes \cup req[r].pendCodes
    /\ diags' = diags \cup req[r].pendDiags
    /\ LET q == [req[r] EXCEPT !.respNote = Uuid4("note", r, 1), !.dirtyText = FALSE,
                               !.pendNotes = {}, !.pendCodes = {}, !.pendDiags = {}]
       IN  req' = [req EXCEPT ![r] =
               IF q.kind = "upload" THEN [q EXCEPT !.pc = "u_rewrite"] ELSE Finished(q, 200)]
    /\ UNCHANGED <<storage, localFiles, extractorCalls, nextId, adds, last>>
    /\ UNCHANGED call

\* upload_document, lines 85-87: the stored path is rewritten and committed on
\* the session that process_document used.
UploadRewrite(r) ==
    /\ req[r].pc = "u_rewrite"
    /\ IF req[r].sessOk
       THEN /\ documents' = CommittedDocs(req[r], TRUE,
                                StoragePath(req[r].doc, req[r].filename))
            /\ notes' = CommittedNotes(req[r])
            /\ codes' = codes \cup req[r].pendCodes
            /\ diags' = diags \cup req[r].pendDiags
            /\ req' = [req EXCEPT ![r] =
                   [@ EXCEPT !.pc = "u_remove", !.log = Append(@, "rewrite"),
                             !.path = StoragePath(req[r].doc, req[r].filename),
                             !.dirtyText = FALSE,
                             !.pendNotes = {}, !.pendCodes = {}, !.pendDiags = {}]]
       ELSE \* the commit raises PendingRollbackError, which leaves the handler
            /\ req' = [req EXCEPT ![r] = Finished(@, 500)]
            /\ UNCHANGED <<documents, notes, codes, diags>>
    /\ UNCHANGED <<storage, localFiles, extractorCalls, nextId, adds, last>>
    /\ UNCHANGED call

\* upload_document, lines 89-95: the local copy is removed, or its removal fails
\* and the error is swallowed; the Document is returned.
UploadRemove(r) ==
    /\ req[r].pc = "u_remove"
    /\ \E removed \in BOOLEAN :
         /\ localFiles' = IF removed
                          THEN {f \in localFiles :
                                   f.path # LocalPath(req[r].doc, req[r].filename)}
                          ELSE localFiles
         /\ req' = [req EXCEPT ![r] =
                Finished([@ EXCEPT !.respDoc = req[r].doc,
                                   !.log = IF removed THEN Append(@, "remove") ELSE @], 200)]
    /\ UNCHANGED <<documents, storage, notes, codes, diags,
                   extractorCalls, nextId, adds, last>>
    /\ UNCHANGED call

PipelineStep(r) ==
    \/ UploadArrive(r)
    \/ UploadStore(r)
    \/ UploadStoreFails(r)
    \/ UploadLocal(r)
    \/ UploadInsert(r)
    \/ ProcLookup(r)
    \/ ReprocessArrive(r)
    \/ ProcText(r)
    \/ ProcClient(r)
    \/ ProcClientFails(r)
    \/ ProcCommit(r)
    \/ UploadRewrite(r)
    \/ UploadRemove(r)

Init ==
    /\ documents = {}
    /\ storage = {}
    /\ localFiles = {}
    /\ notes = {}
    /\ codes = {}
    /\ diags = {}
    /\ req = [r \in ReqIds |-> NewRequest]
    /\ extractorCalls = [d \in DocIds |-> 0]
    /\ nextId = 1
    /\ adds = {}
    /\ last = [n |-> 0, op |-> "none", note |-> NoId, child |-> NoId, status |-> 0]
    /\ call = NoCall

Next == \E r \in ReqIds : PipelineStep(r)

Spec == Init /\ [][Next]_vars

----------------------------------------------------------------------------
(* Review store: routers/billing_notes.py *)

UNSET == "UNSET"

\* The ids a review request may name: those of the rows that the pipeline made,
\* of the manually added rows, and one that no row has.
NoteIdsNamed == {Uuid4("note", r, 1) : r \in ReqIds}
CodeIdsNamed == {Uuid4("code", r, 1) : r \in 1..2} \cup {Uuid4("code", 0, k) : k \in 1..MaxAdds}
DiagIdsNamed == {Uuid4("diag", r, 1) : r \in 1..2} \cup {Uuid4("diag", 0, k) : k \in 1..MaxAdds}

\* BillingNoteUpdateRequest / UpdateCodeRequest / UpdateDiagnosisRequest: a
\* field is UNSET when the request does not carry it, NULL when it carries null.
NoteBodies == [status : {UNSET, "confirmed", NULL}, patient_name : {UNSET, NULL}]
CodeBodies == [cpt_code_raw : {UNSET, "G0452", NULL}, description : {UNSET, NULL}]
DiagBodies == [icd10_code_raw : {UNSET, "R51"}, is_primary : {UNSET, "true", "false"}]
\* AddCodeRequest / AddDiagnosisRequest
AddCodeBodies == [cpt_code_raw : {"99213"}, description : {NULL}]
AddDiagBodies == [icd10_code_raw : {"R51"}, description : {NULL}, is_primary : {TRUE}]

Answer(op, note, child, status) ==
    [n |-> last.n + 1, op |-> op, note |-> note, child |-> child, status |-> status]

MayServe == last.n < MaxOps

\* Mutant of FindCode: the row is looked up by its own id alone.
FindCodeAnyNote(n, c) == {x \in codes : x.id = c}

\* select(ExtractedCode).where(id == code_id, billing_note_id == note_id)
FindCode(n, c) == {x \in codes : x.id = c /\ x.billing_note_id = n}
\* select(ExtractedDiagnosis).where(id == diag_id, billing_note_id == note_id)
FindDiag(n, g) == {x \in diags : x.id = g /\ x.billing_note_id = n}
\* select(BillingNote).where(id == note_id)
FindNote(n) == {x \in notes : x.id = n}

\* model_dump(exclude_unset=True) and setattr: the fields the request carries
UpdatedCode(row, body) ==
    [row EXCEPT !.cpt_code_raw = IF body.cpt_code_raw = UNSET THEN @ ELSE body.cpt_code_raw,
                !.description = IF body.description = UNSET THEN @ ELSE body.description]
UpdatedDiag(row, body) ==
    [row EXCEPT !.icd10_code_raw = IF body.icd10_code_raw = UNSET THEN @ ELSE body.icd10_code_raw,
                !.is_primary = IF body.is_primary = UNSET THEN @ ELSE body.is_primary = "true"]

UpdatedNote(row, body) ==
    [row EXCEPT !.status = IF body.status = UNSET THEN @ ELSE body.status,
                !.patient_name = IF body.patient_name = UNSET THEN @ ELSE body.patient_name]

\* The database refuses a commit that leaves null in a column declared without
\* nullable: BillingNote.status, ExtractedCode.cpt_code_raw
NoteNotNull(row) == row.status # NULL
CodeNotNull(row) == row.cpt_code_raw # NULL

\* update_billing_note
UpdateNote(n, body) ==
    /\ MayServe
    /\ IF FindNote(n) = {}
       THEN /\ last' = Answer("update_note", n, NoId, 404)
            /\ UNCHANGED notes
       ELSE IF \A x \in FindNote(n) : NoteNotNull(UpdatedNote(x, body))
       THEN /\ notes' = (notes \ FindNote(n)) \cup
                        {UpdatedNote(x, body) : x \in FindNote(n)}
            /\ last' = Answer("update_note", n, NoId, 200)
       ELSE /\ last' = Answer("update_note", n, NoId, 500)
            /\ UNCHANGED notes
    /\ UNCHANGED <<documents, storage, localFiles, codes, diags, req,
                   extractorCalls, nextId, adds>>
    /\ UNCHANGED call

\* get_billing_note
GetNote(n) ==
    /\ MayServe
    /\ last' = Answer("get_note", n, NoId, IF FindNote(n) = {} THEN 404 ELSE 200)
    /\ UNCHANGED <<documents, storage, localFiles, notes, codes, diags, req,
                   extractorCalls, nextId, adds>>
    /\ UNCHANGED call

\* Mutant of CascadeCodes: the note's ExtractedCode rows stay.
CodesKept(n) == codes

\* The rows left by db.delete(note): the note's children go with it
\* (cascade="all, delete-orphan").
CascadeCodes(n) == {c \in codes : c.billing_note_id # n}
CascadeDiags(n) == {g \in diags : g.billing_note_id # n}

\* delete_billing_note
DeleteNote(n) ==
    /\ MayServe
    /\ IF FindNote(n) = {}
       THEN /\ last' = Answer("delete_note", n, NoId, 404)
            /\ UNCHANGED <<notes, codes, diags>>
       ELSE /\ notes' = notes \ FindNote(n)
            /\ codes' = CascadeCodes(n)
            /\ diags' = CascadeDiags(n)
            /\ last' = Answer("delete_note", n, NoId, 200)
    /\ UNCHANGED <<documents, storage, localFiles, req, extractorCalls, nextId, adds>>
    /\ UNCHANGED call

\* confirm_extracted_code
ConfirmCode(n, c, confirmed) ==
    /\ MayServe
    /\ IF FindCode(n, c) = {}
       THEN /\ last' = Answer("confirm_code", n, c, 404)
            /\ UNCHANGED codes
       ELSE /\ codes' = (codes \ FindCode(n, c)) \cup
                        {[x EXCEPT !.confirmed = confirmed] : x \in FindCode(n, c)}
            /\ last' = Answer("confirm_code", n, c, 200)
    /\ UNCHANGED <<documents, storage, localFiles, notes, diags, req,
                   extractorCalls, nextId, adds>>
    /\ UNCHANGED call

\* update_extracted_code
UpdateCode(n, c, body) ==
    /\ MayServe
    /\ IF FindCode(n, c) = {}
       THEN /\ last' = Answer("update_code", n, c, 404)
            /\ UNCHANGED codes
       ELSE IF \A x \in FindCode(n, c) : CodeNotNull(UpdatedCode(x, body))
       THEN /\ codes' = (codes \ FindCode(n, c)) \cup
                        {UpdatedCode(x, body) : x \in FindCode(n, c)}
            /\ last' = Answer("update_code", n, c, 200)
       ELSE /\ last' = Answer("update_code", n, c, 500)
            /\ UNCHANGED codes
    /\ UNCHANGED <<documents, storage, localFiles, notes, diags, req,
                   extractorCalls, nextId, adds>>
    /\ UNCHANGED call

\* delete_extracted_code
DeleteCode(n, c) ==
    /\ MayServe
    /\ IF FindCode(n, c) = {}
       THEN /\ last' = Answer("delete_code", n, c, 404)
            /\ UNCHANGED codes
       ELSE /\ codes' = codes \ FindCode(n, c)
            /\ last' = Answer("delete_code", n, c, 200)
    /\ UNCHANGED <<documents, storage, localFiles, notes, diags, req,
                   extractorCalls, nextId, adds>>
    /\ UNCHANGED call

\* update_extracted_diagnosis
UpdateDiag(n, g, body) ==
    /\ MayServe
    /\ IF FindDiag(n, g) = {}
       THEN /\ last' = Answer("update_diag", n, g, 404)
            /\ UNCHANGED diags
       ELSE /\ diags' = (diags \ FindDiag(n, g)) \cup
                        {UpdatedDiag(x, body) : x \in FindDiag(n, g)}
            /\ last' = Answer("update_diag", n, g, 200)
    /\ UNCHANGED <<documents, storage, localFiles, notes, codes, req,
                   extractorCalls, nextId, adds>>
    /\ UNCHANGED call

\* delete_extracted_diagnosis
DeleteDiag(n, g) ==
    /\ MayServe
    /\ IF FindDiag(n, g) = {}
       THEN /\ last' = Answer("delete_diag", n, g, 404)
            /\ UNCHANGED diags
       ELSE /\ diags' = diags \ FindDiag(n, g)
            /\ last' = Answer("delete_diag", n, g, 200)
    /\ UNCHANGED <<documents, storage, localFiles, notes, codes, req,
                   extractorCalls, nextId, adds>>
    /\ UNCHANGED call

\* add_extracted_code, lines 222-236, and add_extracted_diagnosis, lines
\* 302-315: the note is looked up (404 if absent) and the row is built.
AddCheck(table, n, body) ==
    /\ MayServe
    /\ nextId <= MaxAdds
    /\ IF FindNote(n) = {}
       THEN /\ last' = Answer("add_" \o table, n, NoId, 404)
            /\ UNCHANGED <<adds, nextId>>
       ELSE /\ adds' = adds \cup {[table |-> table, note |-> n, k |-> nextId, body |-> body]}
            /\ nextId' = nextId + 1
            /\ last' = Answer("add_" \o table \o "_check", n, NoId, 0)
    /\ UNCHANGED <<documents, storage, localFiles, notes, codes, diags, req, extractorCalls>>
    /\ UNCHANGED call

\* ExtractedCode.billing_note_id, ForeignKey("billing_notes.id"): the database
\* takes an ExtractedCode row only if the note it names exists.
CodeForeignKeyHolds(n) == \E x \in notes : x.id = n

\* ExtractedDiagnosis has the same owning reference to its BillingNote.
DiagForeignKeyHolds(n) == \E x \in notes : x.id = n

\* add_extracted_code, lines 237-240: the row is inserted and committed.
AddCodeInsert(a) ==
    /\ a.table = "code"
    /\ adds' = adds \ {a}
    /\ IF CodeForeignKeyHolds(a.note)
       THEN /\ codes' = codes \cup
                   {[id |-> Uuid4("code", 0, a.k), billing_note_id |-> a.note,
                     cpt_code_id |-> NULL, cpt_code_raw |-> a.body.cpt_code_raw,
                     description |-> a.body.description, confirmed |-> FALSE]}
            /\ last' = Answer("add_code", a.note, Uuid4("code", 0, a.k), 200)
       ELSE /\ last' = Answer("add_code", a.note, NoId, 500)
            /\ UNCHANGED codes
    /\ UNCHANGED <<documents, storage, localFiles, notes, diags, req, extractorCalls, nextId>>
    /\ UNCHANGED call

\* add_extracted_diagnosis, lines 316-319: the row is inserted and committed.
AddDiagInsert(a) ==
    /\ a.table = "diag"
    /\ adds' = adds \ {a}
    /\ IF DiagForeignKeyHolds(a.note)
       THEN /\ diags' = diags \cup
                   {[id |-> Uuid4("diag", 0, a.k), billing_note_id |-> a.note,
                     icd10_code_id |-> NULL, icd10_code_raw |-> a.body.icd10_code_raw,
                     description |-> a.body.description, is_primary |-> a.body.is_primary]}
            /\ last' = Answer("add_diag", a.note, Uuid4("diag", 0, a.k), 200)
       ELSE /\ last' = Answer("add_diag", a.note, NoId, 500)
            /\ UNCHANGED diags
    /\ UNCHANGED <<documents, storage, localFiles, notes, codes, req, extractorCalls, nextId>>
    /\ UNCHANGED call

ReviewStep ==
    \/ \E n \in NoteIdsNamed : GetNote(n)
    \/ \E n \in NoteIdsNamed : DeleteNote(n)
    \/ \E n \in NoteIdsNamed, b \in NoteBodies : UpdateNote(n, b)
    \/ \E n \in NoteIdsNamed, c \in CodeIdsNamed, v \in BOOLEAN : ConfirmCode(n, c, v)
    \/ \E n \in NoteIdsNamed, c \in CodeIdsNamed, b \in CodeBodies : UpdateCode(n, c, b)
    \/ \E n \in NoteIdsNamed, c \in CodeIdsNamed : DeleteCode(n, c)
    \/ \E n \in NoteIdsNamed, g \in DiagIdsNamed, b \in DiagBodies : UpdateDiag(n, g, b)
    \/ \E n \in NoteIdsNamed, g \in DiagIdsNamed : DeleteDiag(n, g)
    \/ \E n \in NoteIdsNamed, b \in AddCodeBodies : AddCheck("code", n, b)
    \/ \E n \in NoteIdsNamed, b \in AddDiagBodies : AddCheck("diag", n, b)
    \/ \E a \in adds : AddCodeInsert(a)
    \/ \E a \in adds : AddDiagInsert(a)

\* The review store is exercised on the tables that two processed uploads
\* leave: two Documents, each with one BillingNote, one ExtractedCode and one
\* ExtractedDiagnosis.
ProcessedUpload(r) ==
    Finished([NewRequest EXCEPT !.kind = "upload", !.doc = Uuid4("doc", r, 1),
                                !.respDoc = Uuid4("doc", r, 1),
                                !.respNote = Uuid4("note", r, 1),
                                !.log = UploadEffects, !.clientCalls = 1,
                                !.extractorRuns = 1, !.solo = TRUE,
                                !.ext = MatchedExtraction], 200)

ProcessedDocument(r, content) ==
    [id |-> Uuid4("doc", r, 1), filename |-> UpperPdfName,
     file_path |-> StoragePath(Uuid4("doc", r, 1), UpperPdfName),
     file_hash |-> Sha256(content),
     extracted_text |-> Text(PagesText(content.pages, 1)),
     page_count |-> Len(content.pages)]

InitReview ==
    /\ documents = {ProcessedDocument(1, GoodPdf), ProcessedDocument(2, BlankPdf)}
    /\ storage = {StoragePath(Uuid4("doc", r, 1), UpperPdfName) : r \in 1..2}
    /\ localFiles = {}
    /\ notes = {NewBillingNote(r, Uuid4("doc", r, 1), MatchedExtraction) : r \in 1..2}
    /\ codes = UNION {CreateExtractedCodes(r, Uuid4("note", r, 1), MatchedExtraction) : r \in 1..2}
    /\ diags = UNION {CreateExtractedDiagnoses(r, Uuid4("note", r, 1), MatchedExtraction) : r \in 1..2}
    /\ req = [r \in ReqIds |->
                 IF r = 1 THEN ProcessedUpload(1)
                 ELSE IF r = 2 THEN ProcessedUpload(2)
                 ELSE NewRequest]
    /\ extractorCalls = [d \in DocIds |-> IF d[2] <= 2 THEN 1 ELSE 0]
    /\ nextId = 1
    /\ adds = {}
    /\ last = [n |-> 0, op |-> "none", note |-> NoId, child |-> NoId, status |-> 0]
    /\ call = NoCall

SpecReview == InitReview /\ [][ReviewStep]_vars

----------------------------------------------------------------------------
(* Cross-referencing: a reprocess against every answer of the service *)

\* Code strings the extraction service may report: codes of the reference
\* tables and strings that differ from one in case, padding or a leading zero.
RawProcCodes == {"99213", "G0452", "g0452", "G0452 ", "099213", "99213-25-59"}
RawDiagCodes == {"G40.909", "g40.909", "R51", "R51.0"}

SeqsUpTo(S, n) == UNION {[1..k -> S] : k \in 0..n}

XrefExtractions ==
    [patient_name : {"Ann"},
     procedures : SeqsUpTo({Proc(c) : c \in RawProcCodes}, MaxEntries),
     diagnoses : SeqsUpTo({Diag(c, p) : c \in RawDiagCodes, p \in BOOLEAN}, MaxEntries)]

\* The upload of request r, whose processing failed in the extraction-client
\* call after the text was extracted, as it has ended.
UnprocessedUpload(r) ==
    Finished([NewRequest EXCEPT !.kind = "upload", !.doc = Uuid4("doc", r, 1),
                                !.respDoc = Uuid4("doc", r, 1),
                                !.log = UploadEffects, !.clientCalls = 1,
                                !.extractorRuns = 1, !.solo = TRUE,
                                !.failedAt = "client"], 200)

\* One Document, uploaded and left without a BillingNote.
InitXref ==
    /\ documents = {ProcessedDocument(1, GoodPdf)}
    /\ storage = {StoragePath(Uuid4("doc", 1, 1), UpperPdfName)}
    /\ localFiles = {}
    /\ notes = {} /\ codes = {} /\ diags = {}
    /\ req = [r \in ReqIds |-> IF r = 1 THEN UnprocessedUpload(1) ELSE NewRequest]
    /\ extractorCalls = [d \in DocIds |-> IF d[2] = 1 THEN 1 ELSE 0]
    /\ nextId = 1
    /\ adds = {}
    /\ last = [n |-> 0, op |-> "none", note |-> NoId, child |-> NoId, status |-> 0]
    /\ call = NoCall

\* The second request is a reprocess.
XrefStep ==
    \/ ReprocessArrive(2)
    \/ ProcText(2)
    \/ ProcClientWith(2, XrefExtractions)
    \/ ProcCommit(2)

SpecXref == InitXref /\ [][XrefStep]_vars

----------------------------------------------------------------------------
(* Overlapping processing of one Document *)

\* An upload has committed its Document row, which points at the local copy
\* and has no text yet, and is about to process it (documents.py, line 80).
InitRace ==
    LET id == Uuid4("doc", 1, 1)
        upload == [NewRequest EXCEPT !.pc = "p_lookup", !.kind = "upload",
                                     !.filename = UpperPdfName, !.content = GoodPdf,
                                     !.doc = id, !.path = LocalPath(id, UpperPdfName),
                                     !.log = <<"storage", "local", "insert">>,
                                     !.solo = TRUE]
    IN  /\ documents = {[id |-> id, filename |-> UpperPdfName,
                         file_path |-> LocalPath(id, UpperPdfName),
                         file_hash |-> Sha256(GoodPdf),
                         extracted_text |-> NoneText, page_count |-> -1]}
        /\ storage = {StoragePath(id, UpperPdfName)}
        /\ localFiles = {[path |-> LocalPath(id, UpperPdfName), content |-> GoodPdf]}
        /\ notes = {} /\ codes = {} /\ diags = {}
        /\ req = [r \in ReqIds |-> IF r = 1 THEN upload ELSE NewRequest]
        /\ extractorCalls = [d \in DocIds |-> 0]
        /\ nextId = 1
        /\ adds = {}
        /\ last = [n |-> 0, op |-> "none", note |-> NoId, child |-> NoId, status |-> 0]
        /\ call = NoCall

\* The upload processes its Document while reprocess requests arrive; the
\* extraction service gives one of two answers that the database accepts.
RaceStep ==
    \E r \in ReqIds :
        \/ ProcLookup(r)
        \/ ReprocessArrive(r)
        \/ ProcText(r)
        \/ ProcClientWith(r, {MatchedExtraction, UnmatchedExtraction})
        \/ ProcClientFails(r)
        \/ ProcCommit(r)
        \/ UploadRewrite(r)
        \/ UploadRemove(r)

SpecRace == InitRace /\ [][RaceStep]_vars

----------------------------------------------------------------------------
(* Side-effect-free operations, each called on inputs drawn at the start *)

\* The system before any request: no row, no file, no request.
EmptySystem ==
    /\ documents = {}
    /\ storage = {}
    /\ localFiles = {}
    /\ notes = {}
    /\ codes = {}
    /\ diags = {}
    /\ req = [r \in ReqIds |-> NewRequest]
    /\ extractorCalls = [d \in DocIds |-> 0]
    /\ nextId = 1
    /\ adds = {}
    /\ last = [n |-> 0, op |-> "none", note |-> NoId, child |-> NoId, status |-> 0]

\* A call leaves the stores alone.
StoresUnchanged ==
    UNCHANGED <<documents, storage, localFiles, notes, codes, diags, req,
                extractorCalls, nextId, adds, last>>

\* A call of operation fn on arg that has not returned yet.
Called(fn, arg) == [fn |-> fn, arg |-> arg, done |-> FALSE]

----------------------------------------------------------------------------
(* Extraction client: services/claude_service.py *)

\* ExtractionResult: the fields without a default
RequiredFields == {"clinical_summary", "procedures", "billing_narrative"}

\* A JSON value, as far as the client looks at it: is the text JSON at all, is
\* the value an object, which of the required keys has it, and the patient
\* name it carries.
JsonObject(keys, patient) ==
    [json |-> TRUE, object |-> TRUE, keys |-> keys, patient_name |-> patient]
JsonArray == [json |-> TRUE, object |-> FALSE, keys |-> {}, patient_name |-> NULL]
NotJson == [json |-> FALSE, object |-> FALSE, keys |-> {}, patient_name |-> NULL]

ToolUse(name, input) == [type |-> "tool_use", name |-> name, data |-> input]
TextBlock(text) == [type |-> "text", name |-> NULL, data |-> text]

ContentBlocks ==
    {ToolUse("submit_extraction", JsonObject(RequiredFields, p)) : p \in {"Ann", "Bob"}}
    \cup {ToolUse("submit_extraction", JsonObject(RequiredFields \ {"clinical_summary"}, "Ann")),
          ToolUse("other_tool", JsonObject(RequiredFields, "Cy"))}
    \cup {TextBlock(JsonObject(RequiredFields, p)) : p \in {"Dee", "Eve"}}
    \cup {TextBlock(JsonObject(RequiredFields \ {"procedures"}, "Dee")),
          TextBlock(JsonArray), TextBlock(NotJson)}

\* response.content
Responses == UNION {[1..k -> ContentBlocks] : k \in 0..MaxBlocks}

Returned(result) == [outcome |-> "returned", result |-> result]
Raised(error) == [outcome |-> error, result |-> [patient_name |-> NULL]]

\* ExtractionResult(**data): TypeError when data is no mapping,
\* ValidationError when a required field is missing.
ExtractionResult(data) ==
    IF ~data.object THEN Raised("TypeError")
    ELSE IF ~(RequiredFields \subseteq data.keys) THEN Raised("ValidationError")
    ELSE Returned([patient_name |-> data.patient_name])

\* extract_cpt_codes, lines 168-177: the text blocks from the i-th on.  A
\* JSONDecodeError and a ValidationError (a ValueError) are passed over; any
\* other error leaves the function.
RECURSIVE TextFallback(_, _)
TextFallback(content, i) ==
    IF i > Len(content) THEN Raised("no valid extraction")
    ELSE IF content[i].type # "text" THEN TextFallback(content, i + 1)
    ELSE IF ~content[i].data.json THEN TextFallback(content, i + 1)
    ELSE LET out == ExtractionResult(content[i].data)
         IN  IF out.outcome = "ValidationError"
             THEN TextFallback(content, i + 1)
             ELSE out

\* extract_cpt_codes, lines 164-166: the positions of the submit_extraction blocks
ToolBlocks(content) ==
    {i \in 1..Len(content) :
        content[i].type = "tool_use" /\ content[i].name = "submit_extraction"}

\* extract_cpt_codes, lines 163-177, on the content of the service's answer
extract_cpt_codes(content) ==
    IF ToolBlocks(content) # {}
    THEN LET first == CHOOSE i \in ToolBlocks(content) : \A j \in ToolBlocks(content) : i <= j
         IN  ExtractionResult(content[first].data)
    ELSE TextFallback(content, 1)

InitClient ==
    /\ EmptySystem
    /\ \E content \in Responses : call = Called("extract_cpt_codes", content)

ClientReturns ==
    /\ call.fn = "extract_cpt_codes"
    /\ ~call.done
    /\ call' = [fn |-> call.fn, arg |-> call.arg, done |-> TRUE,
                ret |-> extract_cpt_codes(call.arg)]
    /\ StoresUnchanged

SpecClient == InitClient /\ [][ClientReturns]_vars

----------------------------------------------------------------------------
(* Download: routers/documents.py, beside one upload *)

\* An identity that no Document has.
AbsentDoc == Uuid4("doc", 0, 1)

\* Is no download being served?
DownloadIdle == IF call.fn = "none" THEN TRUE ELSE call.done

\* download_document, lines 148-151: the Document is read, 404 if absent.
DownloadLookup(d) ==
    /\ DownloadIdle
    /\ call' = IF \E x \in documents : x.id = d
               THEN [fn |-> "download_document", arg |-> d, done |-> FALSE,
                     path |-> DocRow(d).file_path]
               ELSE [fn |-> "download_document", arg |-> d, done |-> TRUE,
                     path |-> NoPath, ret |-> [status |-> 404, source |-> "none"]]
    /\ StoresUnchanged

\* download_document, lines 153-174: the bytes are fetched from object storage
\* (the storage client raises when the object is missing) or from local disk.
ServeFile(path) ==
    IF IsStoragePath(path)
    THEN IF path \in storage THEN [status |-> 200, source |-> "storage"]
         ELSE [status |-> 500, source |-> "storage"]
    ELSE IF \E f \in localFiles : f.path = path THEN [status |-> 200, source |-> "local"]
         ELSE [status |-> 404, source |-> "local"]

DownloadServe ==
    /\ call.fn = "download_document"
    /\ ~call.done
    /\ call' = [fn |-> call.fn, arg |-> call.arg, done |-> TRUE, path |-> call.path,
                ret |-> ServeFile(call.path)]
    /\ StoresUnchanged

\* Outside the application, an object is removed from the bucket or a file
\* from the upload directory.
ObjectLost ==
    /\ \E p \in storage : storage' = storage \ {p}
    /\ UNCHANGED <<documents, localFiles, notes, codes, diags, req,
                   extractorCalls, nextId, adds, last, call>>

FileLost ==
    /\ \E f \in localFiles : localFiles' = localFiles \ {f}
    /\ UNCHANGED <<documents, storage, notes, codes, diags, req,
                   extractorCalls, nextId, adds, last, call>>

DownloadStep ==
    \/ UploadArrive(1)
    \/ UploadStore(1)
    \/ UploadStoreFails(1)
    \/ UploadLocal(1)
    \/ UploadInsert(1)
    \/ ProcLookup(1)
    \/ ProcText(1)
    \/ ProcClient(1)
    \/ ProcClientFails(1)
    \/ ProcCommit(1)
    \/ UploadRewrite(1)
    \/ UploadRemove(1)
    \/ \E d \in {Uuid4("doc", 1, 1), AbsentDoc} : DownloadLookup(d)
    \/ DownloadServe
    \/ ObjectLost
    \/ FileLost

SpecDownload == Init /\ [][DownloadStep]_vars

----------------------------------------------------------------------------
(* Date of service: services/billing_service.py, _parse_date *)

DigitChars == <<"0", "1", "2", "3", "4", "5", "6", "7", "8", "9">>
IsDigit(c) == \E i \in 1..10 : DigitChars[i] = c
DigitVal(c) == (CHOOSE i \in 1..10 : DigitChars[i] = c) - 1

\* The strings given to _parse_date: None, or a sequence of characters.
NoString == [present |-> FALSE, chars |-> <<>>]
Str(chars) == [present |-> TRUE, chars |-> chars]

DateStrings ==
    LET years == {<<"2", "0", "2", "4">>, <<"2", "0", "2", "3">>, <<"2", "4">>}
        months == {<<"0", "3">>, <<"3">>, <<"0", "2">>, <<"2">>, <<"1", "2">>, <<"1", "3">>,
                   <<"0", "0">>}
        days == {<<"0", "5">>, <<"5">>, <<" ", "5">>, <<"2", "9">>, <<"3", "0">>, <<"3", "1">>,
                 <<"0", "0">>}
    IN  {NoString, Str(<<>>), Str(<<"M", "a", "r", " ", "5", " ", "2", "0", "2", "4">>)}
        \cup {Str(y \o <<"-">> \o m \o <<"-">> \o d) : y \in years, m \in months, d \in days}
        \cup {Str(y \o <<"/", "0", "3", "/", "0", "5">>) : y \in years}

NoDate == [isNone |-> TRUE, year |-> 0, month |-> 0, day |-> 0]
Date(y, m, d) == [isNone |-> FALSE, year |-> y, month |-> m, day |-> d]

\* strptime's %m: 1[0-2], 0[1-9] or [1-9]; 0 when the text is none of them
MonthOf(t) ==
    IF Len(t) = 1 /\ IsDigit(t[1]) THEN DigitVal(t[1])
    ELSE IF Len(t) = 2 /\ IsDigit(t[1]) /\ IsDigit(t[2])
              /\ 10 * DigitVal(t[1]) + DigitVal(t[2]) \in 1..12
         THEN 10 * DigitVal(t[1]) + DigitVal(t[2])
         ELSE 0

\* strptime's %d: 3[01], [12][0-9], 0[1-9], [1-9] or a blank and [1-9]
DayOf(t) ==
    IF Len(t) = 1 /\ IsDigit(t[1]) THEN DigitVal(t[1])
    ELSE IF Len(t) = 2 /\ t[1] = " " /\ IsDigit(t[2]) THEN DigitVal(t[2])
    ELSE IF Len(t) = 2 /\ IsDigit(t[1]) /\ IsDigit(t[2])
              /\ 10 * DigitVal(t[1]) + DigitVal(t[2]) \in 1..31
         THEN 10 * DigitVal(t[1]) + DigitVal(t[2])
         ELSE 0

\* the days of month m of year y
DaysIn(y, m) ==
    IF m = 2 THEN (IF (y % 4 = 0 /\ y % 100 # 0) \/ y % 400 = 0 THEN 29 ELSE 28)
    ELSE IF m \in {4, 6, 9, 11} THEN 30 ELSE 31

\* datetime.strptime(date_str, "%Y-%m-%d").date(), None on ValueError: four
\* digits, "-", a month, "-", a day, and nothing else
Strptime(c) ==
    IF Len(c) < 6 THEN NoDate
    ELSE IF ~(\A i \in 1..4 : IsDigit(c[i])) \/ c[5] # "-" THEN NoDate
    ELSE LET rest == SubSeq(c, 6, Len(c))
             dashes == {i \in 1..Len(rest) : rest[i] = "-"}
         IN  IF dashes = {} THEN NoDate
             ELSE LET k == CHOOSE i \in dashes : \A j \in dashes : i <= j
                      y == 1000 * DigitVal(c[1]) + 100 * DigitVal(c[2])
                             + 10 * DigitVal(c[3]) + DigitVal(c[4])
                      m == MonthOf(SubSeq(rest, 1, k - 1))
                      d == DayOf(SubSeq(rest, k + 1, Len(rest)))
                  IN  IF y = 0 \/ m = 0 \/ d = 0 THEN NoDate
                      ELSE IF d > DaysIn(y, m) THEN NoDate
                      ELSE Date(y, m, d)

\* _parse_date, lines 125-132
ParseDate(s) == IF ~s.present \/ s.chars = <<>> THEN NoDate ELSE Strptime(s.chars)

InitDate ==
    /\ EmptySystem
    /\ \E s \in DateStrings : call = Called("_parse_date", s)

DateReturns ==
    /\ call.fn = "_parse_date"
    /\ ~call.done
    /\ call' = [fn |-> call.fn, arg |-> call.arg, done |-> TRUE, ret |-> ParseDate(call.arg)]
    /\ StoresUnchanged

SpecDate == InitDate /\ [][DateReturns]_vars

----------------------------------------------------------------------------
(* Text extractor: services/pdf_service.py *)

\* The lines of full_text: a page marker, a page's text, or an empty line.
MarkerLine(i) == [kind |-> "marker", page |-> i, text |-> ""]
TextLine(t) == [kind |-> "text", page |-> 0, text |-> t]
BlankLine == [kind |-> "blank", page |-> 0, text |-> ""]

RECURSIVE Join(_, _)
\* "\n\n".join(pages_text), from the i-th segment on; a segment is
\* f"--- Page {i + 1} ---\n{text}"
Join(segs, i) ==
    IF i > Len(segs) THEN <<>>
    ELSE <<MarkerLine(segs[i].marker), TextLine(segs[i].text)>>
         \o (IF i < Len(segs) THEN <<BlankLine>> ELSE <<>>)
         \o Join(segs, i + 1)

\* pdf.pages, each page by what page.extract_text() gives ("": no text)
Pdfs == UNION {[1..n -> {"", "A", "B"}] : n \in 0..MaxPages}

InitPdf ==
    /\ EmptySystem
    /\ \E pages \in Pdfs : call = Called("extract_text_from_pdf", pages)

PdfReturns ==
    /\ call.fn = "extract_text_from_pdf"
    /\ ~call.done
    /\ LET file == [path |-> "file_path",
                    content |-> [readable |-> TRUE, pages |-> call.arg]]
           out == extract_text_from_pdf(file.path, {file})
       IN  call' = [fn |-> call.fn, arg |-> call.arg, done |-> TRUE,
                    ret |-> [full_text |-> Join(out.text.segs, 1),
                             page_count |-> out.page_count]]
    /\ StoresUnchanged

SpecPdf == InitPdf /\ [][PdfReturns]_vars

----------------------------------------------------------------------------
(* Listing of billing notes: routers/billing_notes.py, list_billing_notes *)

RECURSIVE LikeFrom(_, _, _, _)
\* Does the LIKE pattern p, from its i-th character on, match the string s from
\* its j-th character on?  % is any run of characters, _ any one character,
\* and the backslash (the default escape) makes the next character literal.
LikeFrom(p, i, s, j) ==
    IF i > Len(p) THEN j > Len(s)
    ELSE IF p[i] = "%" THEN \E k \in j..(Len(s) + 1) : LikeFrom(p, i + 1, s, k)
    ELSE IF j > Len(s) THEN FALSE
    ELSE IF p[i] = "_" THEN LikeFrom(p, i + 1, s, j + 1)
    ELSE IF p[i] = "\\"
         THEN IF i = Len(p) THEN FALSE
              ELSE s[j] = p[i + 1] /\ LikeFrom(p, i + 2, s, j + 1)
    ELSE s[j] = p[i] /\ LikeFrom(p, i + 1, s, j + 1)

\* BillingNote.patient_name.ilike(f"%{search}%"): no match on a null column
ILike(column, search) ==
    /\ column.present
    /\ LikeFrom(Lower(<<"%">> \o search \o <<"%">>), 1, Lower(column.chars), 1)

\* The rows of the query of lines 40-47, before offset and limit.
Selected(rows, status, search) ==
    {x \in rows :
        /\ (status.present /\ status.chars # <<>>) => x.status = status.chars
        /\ (search.present /\ search.chars # <<>>) => ILike(x.patient_name, search.chars)}

\* order_by(BillingNote.created_at.desc()): the notes are numbered in the order
\* of their creation.
NewestFirst(rows) ==
    CHOOSE q \in [1..Cardinality(rows) -> rows] :
        \A i, j \in DOMAIN q : i < j => q[i].id[2] > q[j].id[2]

\* offset(skip).limit(limit)
Window(q, skip, limit) ==
    SubSeq(q, skip + 1, IF skip + limit < Len(q) THEN skip + limit ELSE Len(q))

\* The query parameters and the table that the listing is run against: up to
\* MaxNotes notes of one Document, with the statuses and patient names that
\* PATCH requests have given them.
ListQueries ==
    [skip : 0..1, limit : 1..2,
     status : {NoString, Str(<<>>), Str(<<"d">>), Str(<<"d", "f">>)},
     search : {NoString, Str(<<>>), Str(<<"a">>), Str(<<"D">>), Str(<<"_">>),
               Str(<<"\\">>)}]

ListedNotes ==
    LET fields == [status : {<<"d">>, <<"d", "f">>},
                   patient_name : {NoString, Str(<<"A", "d">>), Str(<<"d">>),
                                   Str(<<"\\", "a">>)}]
    IN  UNION {[1..n -> fields] : n \in 0..MaxNotes}

InitList ==
    /\ \E q \in ListQueries : call = Called("list_billing_notes", q)
    /\ \E t \in ListedNotes :
          notes = {[id |-> Uuid4("note", k, 1), document_id |-> Uuid4("doc", 1, 1),
                    patient_name |-> t[k].patient_name, status |-> t[k].status] :
                   k \in DOMAIN t}
    /\ documents = {ProcessedDocument(1, GoodPdf)}
    /\ storage = {StoragePath(Uuid4("doc", 1, 1), UpperPdfName)}
    /\ localFiles = {}
    /\ codes = {}
    /\ diags = {}
    /\ req = [r \in ReqIds |-> IF r = 1 THEN ProcessedUpload(1) ELSE NewRequest]
    /\ extractorCalls = [d \in DocIds |-> IF d[2] = 1 THEN 1 ELSE 0]
    /\ nextId = 1
    /\ adds = {}
    /\ last = [n |-> 0, op |-> "none", note |-> NoId, child |-> NoId, status |-> 0]

ListReturns ==
    /\ call.fn = "list_billing_notes"
    /\ ~call.done
    /\ LET q == call.arg
       IN  call' = [fn |-> call.fn, arg |-> q, done |-> TRUE,
                    ret |-> Window(NewestFirst(Selected(notes, q.status, q.search)),
                                   q.skip, q.limit)]
    /\ StoresUnchanged

SpecList == InitList /\ [][ListReturns]_vars

----------------------------------------------------------------------------
(* Properties of the upload / reprocess pipeline *)

Uploader(d) == CHOOSE u \in ReqIds : Uuid4("doc", u, 1) = d

NotesOf(d) == {n \in notes : n.document_id = d}

\* C1: no two Document rows have the same content hash, whatever the
\* interleaving of the uploads.
C1_UniqueContentHash ==
    \A d1, d2 \in documents : d1.file_hash = d2.file_hash => d1.id = d2.id

\* C2: an upload of content of which an upload has already completed answers
\* with the identity of the existing Document and changes nothing: no Document
\* row, storage object, local file, extractor run, client call or BillingNote.
C2_ReuploadReturnsExisting ==
    [][\A r \in ReqIds :
         ( /\ req[r].pc = "new"
           /\ req'[r].kind = "upload"
           /\ req'[r].status # 400
           /\ \E u \in ReqIds :
                /\ req[u].kind = "upload" /\ req[u].pc = "done" /\ req[u].status = 200
                /\ \E d \in documents :
                     d.id = req[u].respDoc /\ d.file_hash = Sha256(req'[r].content) )
         => /\ req'[r].pc = "done"
            /\ req'[r].status = 200
            /\ \E d \in documents :
                 d.id = req'[r].respDoc /\ d.file_hash = Sha256(req'[r].content)
            /\ req'[r].clientCalls = 0 /\ req'[r].extractorRuns = 0
            /\ UNCHANGED <<documents, storage, localFiles, notes, codes, diags,
                           extractorCalls>>]_vars

\* The rows of request r's processing attempt that are committed.
CommittedNotesOf(r) == {n \in notes : n.id = Uuid4("note", r, 1)}
CommittedCodesOf(r) == {c \in codes : c.billing_note_id = Uuid4("note", r, 1)}
CommittedDiagsOf(r) == {g \in diags : g.billing_note_id = Uuid4("note", r, 1)}

\* Has request r's processing attempt succeeded (process_document returned)?
AttemptSucceeded(r) == req[r].respNote # NoId

\* C3: a processing attempt is all-or-nothing.  An attempt that has not
\* succeeded has no BillingNote, ExtractedCode or ExtractedDiagnosis row
\* committed, also after the upload handler has committed the path rewrite on
\* the same session; an attempt that has succeeded has its note and all the
\* children of its extraction result committed; and an attempt that failed in
\* the lookup, the text extraction or the client call holds no BillingNote row.
C3_AllOrNothing ==
    \A r \in ReqIds :
        /\ IF AttemptSucceeded(r)
           THEN /\ CommittedNotesOf(r) = {NewBillingNote(r, req[r].doc, req[r].ext)}
                /\ CommittedCodesOf(r) =
                       CreateExtractedCodes(r, Uuid4("note", r, 1), req[r].ext)
                /\ CommittedDiagsOf(r) =
                       CreateExtractedDiagnoses(r, Uuid4("note", r, 1), req[r].ext)
           ELSE /\ CommittedNotesOf(r) = {}
                /\ CommittedCodesOf(r) = {}
                /\ CommittedDiagsOf(r) = {}
        /\ req[r].failedAt \in {"lookup", "text", "client"} => req[r].pendNotes = {}

\* C3 witness: an upload whose processing failed in the client call after text
\* was flushed has committed the path rewrite (and with it the text), and an
\* upload whose children were refused by the database has ended.
C3_Witness ==
    /\ \E r \in ReqIds :
         /\ req[r].kind = "upload" /\ req[r].pc = "done" /\ req[r].failedAt = "client"
         /\ \E d \in documents :
              d.id = req[r].doc /\ ~TextMissing(d.extracted_text) /\ IsStoragePath(d.file_path)
    /\ \E r \in ReqIds :
         req[r].kind = "upload" /\ req[r].pc = "done" /\ req[r].failedAt = "rows"

\* Can pdfplumber read the file that Document d was uploaded with?
ReadableDoc(d) == d.file_hash[2].readable

\* C4: reprocessing is a working recovery path.  A reprocess of a readable
\* Document that its upload persisted and left without a BillingNote, served
\* after that upload has ended, fails only in the extraction-client call or on
\* the service's answer: whenever the service answers validly it completes.
C4_ReprocessRecovers ==
    \A r \in ReqIds :
        ( /\ req[r].kind = "reprocess" /\ req[r].pc = "done" /\ req[r].solo
          /\ \E d \in documents : d.id = req[r].doc /\ ReadableDoc(d)
          /\ req[Uploader(req[r].doc)].status = 200
          /\ req[Uploader(req[r].doc)].failedAt \in {"text", "client"} )
        => req[r].failedAt \in {"none", "client", "rows"}

\* C5 (as claimed): over the upload-time attempt and a reprocess that follows
\* it, the Text Extractor is invoked at most once for the Document.
C5_ExtractorAtMostOnce ==
    \A r \in ReqIds :
        (req[r].kind = "reprocess" /\ req[r].solo /\ req[r].pc # "new"
           /\ \E d \in documents : d.id = req[r].doc)
        => req[Uploader(req[r].doc)].extractorRuns + req[r].extractorRuns <= 1

\* C5 (amended): an attempt that finds non-empty text persisted on its Document
\* does not invoke the Text Extractor, and persisted non-empty text is never
\* changed or removed, so every later attempt reuses it.
C5_ExtractorOnlyWithoutText ==
    /\ [](\A r \in ReqIds : req[r].sawText => req[r].extractorRuns = 0)
    /\ [][\A d \in documents :
            ~TextMissing(d.extracted_text)
            => \E e \in documents' : e.id = d.id /\ e.extracted_text = d.extracted_text]_vars

\* C5 witness: a reprocess found the text persisted by an earlier attempt and
\* completed without running the extractor.
C5_Witness ==
    \E r \in ReqIds :
        /\ req[r].kind = "reprocess" /\ req[r].pc = "done" /\ req[r].status = 200
        /\ req[r].sawText /\ req[r].extractorRuns = 0 /\ req[r].clientCalls = 1

\* C6: a successful reprocess calls the extraction client once and adds one
\* new draft BillingNote of its Document (with its children); no step of a
\* reprocess changes or deletes a row that existed before.
C6_ReprocessAddsOneNote ==
    [][\A r \in ReqIds :
         (req'[r] # req[r] /\ req'[r].kind = "reprocess")
         => /\ notes \subseteq notes' /\ codes \subseteq codes' /\ diags \subseteq diags'
            /\ IF req'[r].pc = "done" /\ req'[r].status = 200
               THEN /\ req'[r].clientCalls = 1
                    /\ \E n \in notes' \ notes :
                         /\ notes' \ notes = {n}
                         /\ n.id \notin {m.id : m \in notes}
                         /\ n.id = req'[r].respNote
                         /\ n.status = "draft"
                         /\ n.document_id = req[r].doc
                         /\ \A c \in codes' \ codes : c.billing_note_id = n.id
                         /\ \A g \in diags' \ diags : g.billing_note_id = n.id
               ELSE notes' = notes /\ codes' = codes /\ diags' = diags]_vars

\* C6 witness: a Document holds the note of its upload and the note of a
\* successful reprocess.
C6_Witness ==
    \E r \in ReqIds :
        /\ req[r].kind = "reprocess" /\ req[r].pc = "done" /\ req[r].status = 200
        /\ Cardinality(NotesOf(req[r].doc)) >= 2
        /\ \E c \in codes : c.billing_note_id # req[r].respNote

\* Is `log` the sequence UploadEffects, with or without its last entry?
InUploadOrder(log) ==
    log = UploadEffects \/ log = SubSeq(UploadEffects, 1, Len(UploadEffects) - 1)

\* C7: an upload of new content whose Document row has been committed
\* completes successfully whatever the outcome of processing and of the removal
\* of the local copy; the row then holds the object-storage path and the
\* effects happened in the order storage object, local copy, Document commit,
\* processing, path rewrite, removal.
C7_UploadCompletes ==
    \A r \in ReqIds :
        (req[r].kind = "upload" /\ req[r].pc = "done"
           /\ \E d \in documents : d.id = req[r].doc)
        => /\ req[r].status = 200
           /\ req[r].respDoc = req[r].doc
           /\ \A d \in documents :
                d.id = req[r].doc => d.file_path = StoragePath(d.id, d.filename)
           /\ InUploadOrder(req[r].log)

----------------------------------------------------------------------------
(* Properties of the review store *)

CodeOps == {"confirm_code", "update_code", "delete_code"}
DiagOps == {"update_diag", "delete_diag"}

\* C8: a confirm, edit or delete of an ExtractedCode, or an edit or delete of
\* an ExtractedDiagnosis, that names a (note id, child id) pair of which the
\* child does not exist or belongs to another note, answers NotFound and
\* changes no row.
C8_WrongPairNotFound ==
    [][last'.n # last.n =>
         /\ ( /\ last'.op \in CodeOps
              /\ ~ \E x \in codes : x.id = last'.child /\ x.billing_note_id = last'.note )
            => /\ last'.status = 404
               /\ UNCHANGED <<documents, notes, codes, diags>>
         /\ ( /\ last'.op \in DiagOps
              /\ ~ \E x \in diags : x.id = last'.child /\ x.billing_note_id = last'.note )
            => /\ last'.status = 404
               /\ UNCHANGED <<documents, notes, codes, diags>>]_vars

\* C8 witness: a request on an ExtractedCode named an existing note and an
\* existing code of another note, and was answered NotFound.
C8_Witness ==
    /\ last.op \in CodeOps
    /\ last.status = 404
    /\ \E x \in notes : x.id = last.note
    /\ \E x \in codes : x.id = last.child /\ x.billing_note_id # last.note

\* C9: deleting a BillingNote removes that note and its ExtractedCode and
\* ExtractedDiagnosis rows and nothing else; a fetch of a note that is gone,
\* and a confirm, edit or delete of a child that is gone, answer NotFound; and
\* the owner reference of every child row names an existing note.
C9_DeleteNoteCascades ==
    /\ [](/\ \A c \in codes : \E x \in notes : x.id = c.billing_note_id
          /\ \A g \in diags : \E x \in notes : x.id = g.billing_note_id)
    /\ [][last'.n # last.n =>
            /\ (last'.op = "delete_note" /\ last'.status = 200)
               => /\ \E x \in notes : x.id = last'.note
                  /\ notes' = {x \in notes : x.id # last'.note}
                  /\ codes' = {c \in codes : c.billing_note_id # last'.note}
                  /\ diags' = {g \in diags : g.billing_note_id # last'.note}
                  /\ documents' = documents
            /\ (last'.op = "get_note" /\ ~ \E x \in notes : x.id = last'.note)
               => last'.status = 404
            /\ (last'.op \in CodeOps /\ ~ \E c \in codes : c.id = last'.child)
               => last'.status = 404
            /\ (last'.op \in DiagOps /\ ~ \E g \in diags : g.id = last'.child)
               => last'.status = 404]_vars

\* C9 witness: the note of the first upload was deleted with its children, the
\* other note and its children are all that is left, and a request on a former
\* child of the deleted note was answered NotFound.
C9_Witness ==
    /\ last.op \in CodeOps \cup DiagOps
    /\ last.status = 404
    /\ last.note = Uuid4("note", 1, 1)
    /\ last.child \in {Uuid4("code", 1, 1), Uuid4("diag", 1, 1)}
    /\ {x.id : x \in notes} = {Uuid4("note", 2, 1)}
    /\ codes = CreateExtractedCodes(2, Uuid4("note", 2, 1), MatchedExtraction)
    /\ diags = CreateExtractedDiagnoses(2, Uuid4("note", 2, 1), MatchedExtraction)

----------------------------------------------------------------------------
(* Properties of the cross-referencing *)

\* C10: the rows that an orchestration creates are one ExtractedCode per
\* procedure entry and one ExtractedDiagnosis per diagnosis entry; each stores
\* the reported code string unchanged and refers to the reference row whose
\* code is exactly that string, if there is one, and to none otherwise.
C10_ExactCrossReference ==
    \A r \in ReqIds :
        AttemptSucceeded(r) =>
          /\ Cardinality(CommittedCodesOf(r)) = Len(req[r].ext.procedures)
          /\ Cardinality(CommittedDiagsOf(r)) = Len(req[r].ext.diagnoses)
          /\ \A i \in 1..Len(req[r].ext.procedures) :
               \E c \in CommittedCodesOf(r) :
                 /\ c.id = Uuid4("code", r, i)
                 /\ c.cpt_code_raw = req[r].ext.procedures[i].cpt_code
                 /\ \A ref \in CPTCodes : ref.code = c.cpt_code_raw => c.cpt_code_id = ref.id
                 /\ (\A ref \in CPTCodes : ref.code # c.cpt_code_raw) => c.cpt_code_id = NULL
          /\ \A i \in 1..Len(req[r].ext.diagnoses) :
               \E g \in CommittedDiagsOf(r) :
                 /\ g.id = Uuid4("diag", r, i)
                 /\ g.icd10_code_raw = req[r].ext.diagnoses[i].icd10_code
                 /\ \A ref \in ICD10Codes : ref.code = g.icd10_code_raw => g.icd10_code_id = ref.id
                 /\ (\A ref \in ICD10Codes : ref.code # g.icd10_code_raw) => g.icd10_code_id = NULL

\* C10 witness: an orchestration has committed a row for a code of the
\* reference table and a row for a string that differs from it in case only,
\* for procedures and for diagnoses.
C10_Witness ==
    \E r \in ReqIds :
        /\ AttemptSucceeded(r)
        /\ \E c \in CommittedCodesOf(r) : c.cpt_code_raw = "G0452" /\ c.cpt_code_id = "cpt-2"
        /\ \E c \in CommittedCodesOf(r) : c.cpt_code_raw = "g0452" /\ c.cpt_code_id = NULL
        /\ \E g \in CommittedDiagsOf(r) : g.icd10_code_raw = "G40.909" /\ g.icd10_code_id = "icd-1"
        /\ \E g \in CommittedDiagsOf(r) : g.icd10_code_raw = "g40.909" /\ g.icd10_code_id = NULL

----------------------------------------------------------------------------
(* Properties of the rows of one orchestration *)

\* C11: the step that commits a processing attempt whose extraction result
\* has N procedure entries and M diagnosis entries leaves, and reads back, one
\* BillingNote with N ExtractedCode rows and M ExtractedDiagnosis rows, one per
\* entry (repeated and unmatched codes included); every ExtractedCode is
\* unconfirmed and every ExtractedDiagnosis has the is-primary flag of its entry.
C11_OneRowPerEntry ==
    [][\A r \in ReqIds :
         (req[r].respNote = NoId /\ req'[r].respNote # NoId)
         => LET e == req'[r].ext
                read == ReloadNote(req[r].respNote)'
            IN  /\ Cardinality(read.note) = 1
                /\ Cardinality(read.extracted_codes) = Len(e.procedures)
                /\ Cardinality(read.extracted_diagnoses) = Len(e.diagnoses)
                /\ \A i \in 1..Len(e.procedures) :
                     \E c \in read.extracted_codes :
                        /\ c.id = Uuid4("code", r, i)
                        /\ c.cpt_code_raw = e.procedures[i].cpt_code
                        /\ c.confirmed = FALSE
                /\ \A i \in 1..Len(e.diagnoses) :
                     \E g \in read.extracted_diagnoses :
                        /\ g.id = Uuid4("diag", r, i)
                        /\ g.icd10_code_raw = e.diagnoses[i].icd10_code
                        /\ g.is_primary = e.diagnoses[i].is_primary]_vars

\* C11 witness: an attempt has committed two ExtractedCode rows of one repeated
\* code that has no reference row, and two ExtractedDiagnosis rows that are
\* both primary.
C11_Witness ==
    \E r \in ReqIds :
        /\ AttemptSucceeded(r)
        /\ Len(req[r].ext.procedures) = 2
        /\ req[r].ext.procedures[1].cpt_code = req[r].ext.procedures[2].cpt_code
        /\ Cardinality(CommittedCodesOf(r)) = 2
        /\ \A c \in CommittedCodesOf(r) : c.cpt_code_id = NULL /\ ~c.confirmed
        /\ Cardinality(CommittedDiagsOf(r)) = 2
        /\ \A g \in CommittedDiagsOf(r) : g.is_primary

----------------------------------------------------------------------------
(* Properties of the extraction client *)

\* Does block b hold a value that fits the ExtractionResult schema?
SchemaValid(b) == b.data.json /\ b.data.object /\ RequiredFields \subseteq b.data.keys

\* C12: the extraction client returns the result of the submit_extraction
\* block when the answer has one; when it has none, the result of the first
\* text block that parses as the schema; and when no block yields a valid
\* result it fails with the "no valid extraction" error.
C12_ToolThenTextElseNoValid ==
    (call.fn = "extract_cpt_codes" /\ call.done) =>
       LET content == call.arg
           tools == {i \in 1..Len(content) :
                       content[i].type = "tool_use" /\ content[i].name = "submit_extraction"}
           texts == {i \in 1..Len(content) :
                       content[i].type = "text" /\ SchemaValid(content[i])}
       IN  /\ (\E i \in tools : SchemaValid(content[i]))
              => /\ call.ret.outcome = "returned"
                 /\ \E i \in tools : /\ \A j \in tools : i <= j
                                     /\ call.ret.result.patient_name = content[i].data.patient_name
           /\ (tools = {} /\ texts # {})
              => /\ call.ret.outcome = "returned"
                 /\ \E i \in texts : /\ \A j \in texts : i <= j
                                     /\ call.ret.result.patient_name = content[i].data.patient_name
           /\ (~(\E i \in tools : SchemaValid(content[i])) /\ texts = {})
              => call.ret.outcome = "no valid extraction"

----------------------------------------------------------------------------
(* Properties of the download *)

\* C13: a download is answered from object storage when the stored path of
\* the Document has the "pdfs/" prefix and from local disk otherwise; it is
\* answered NotFound when the Document is absent or that source does not hold
\* the file, never with another error; and it changes nothing.
C13_DownloadOrNotFound ==
    [][(call'.fn = "download_document" /\ call' # call) =>
          /\ UNCHANGED <<documents, storage, localFiles, notes, codes, diags>>
          /\ call'.done =>
               /\ call'.ret.status \in {200, 404}
               /\ call'.ret.status = 200 <=>
                    /\ call'.path # NoPath
                    /\ IF IsStoragePath(call'.path)
                       THEN call'.ret.source = "storage" /\ call'.path \in storage
                       ELSE /\ call'.ret.source = "local"
                            /\ \E f \in localFiles : f.path = call'.path]_vars

----------------------------------------------------------------------------
(* Properties of the date parsing *)

\* Has c the form of four digits, "-", two digits, "-", two digits?
StrictForm(c) ==
    /\ Len(c) = 10
    /\ \A i \in {1, 2, 3, 4, 6, 7, 9, 10} : IsDigit(c[i])
    /\ c[5] = "-" /\ c[8] = "-"

\* C14: date-of-service parsing returns a date exactly when the string is
\* present, has the strict form YYYY-MM-DD and names a calendar date, then that
\* date; for every other string it returns absent.
C14_StrictDateOrAbsent ==
    (call.fn = "_parse_date" /\ call.done) =>
       LET c == call.arg.chars
           num(i) == 10 * DigitVal(c[i]) + DigitVal(c[i + 1])
       IN  IF call.arg.present /\ StrictForm(c)
              /\ num(6) \in 1..12 /\ num(9) >= 1
              /\ num(9) <= DaysIn(100 * num(1) + num(3), num(6))
           THEN call.ret = Date(100 * num(1) + num(3), num(6), num(9))
           ELSE call.ret.isNone

----------------------------------------------------------------------------
(* Properties of the text extractor *)

\* C15: for a PDF of n pages the extractor returns page_count = n and a text
\* with one segment per page that has text, in page order: the marker with the
\* page's own 1-based number, then the page's text, the segments separated by
\* one blank line; a page without text contributes nothing, and the text is
\* empty when no page has text.
C15_SegmentPerPageWithText ==
    (call.fn = "extract_text_from_pdf" /\ call.done) =>
       LET pages == call.arg
           lines == call.ret.full_text
           withText == {i \in 1..Len(pages) : pages[i] # ""}
           rank(i) == Cardinality({j \in withText : j <= i})
       IN  /\ call.ret.page_count = Len(pages)
           /\ Len(lines) = IF withText = {} THEN 0 ELSE 3 * Cardinality(withText) - 1
           /\ \A i \in withText :
                 /\ lines[3 * rank(i) - 2] = MarkerLine(i)
                 /\ lines[3 * rank(i) - 1] = TextLine(pages[i])
                 /\ rank(i) < Cardinality(withText) => lines[3 * rank(i)] = BlankLine

\* A page with text after a page without, and two pages with text.
C15_Witness ==
    /\ call.fn = "extract_text_from_pdf" /\ call.done
    /\ Len(call.arg) = 3
    /\ call.arg[1] = "" /\ call.arg[2] = "B" /\ call.arg[3] = "A"
    /\ call.ret.full_text[1] = MarkerLine(2)
    /\ Len(call.ret.full_text) = 5

----------------------------------------------------------------------------
(* Properties of the upload's filename check *)

\* Does the name end with ".pdf", in whatever case?
HasPdfSuffix(fn) ==
    /\ Len(fn) >= 4
    /\ fn[Len(fn) - 3] = "."
    /\ fn[Len(fn) - 2] \in {"p", "P"}
    /\ fn[Len(fn) - 1] \in {"d", "D"}
    /\ fn[Len(fn)] \in {"f", "F"}

\* C16: an upload whose filename is missing or does not end with ".pdf"
\* (case-insensitive) is answered 400 before any effect: no Document, no storage
\* object, no local file, no processing; a name with the suffix in any case
\* passes the check.
C16_RejectedBeforeAnyEffect ==
    /\ [](\A r \in ReqIds :
            (req[r].kind = "upload" /\ req[r].status = 400)
            => /\ req[r].log = <<>>
               /\ req[r].doc = NoId
               /\ req[r].clientCalls = 0 /\ req[r].extractorRuns = 0)
    /\ [][\A r \in ReqIds :
            (req[r].pc = "new" /\ req'[r].pc # "new" /\ req'[r].kind = "upload")
            => IF HasPdfSuffix(req'[r].filename)
               THEN req'[r].status # 400
               ELSE /\ req'[r].pc = "done" /\ req'[r].status = 400
                    /\ UNCHANGED <<documents, storage, localFiles, notes, codes,
                                   diags, extractorCalls>>]_vars

\* An upload named "a.txt" was refused after an upload named "A.PDF" had
\* created its Document.
C16_Witness ==
    \E r, o \in ReqIds :
        /\ req[r].kind = "upload" /\ req[r].status = 400 /\ req[r].filename = TxtName
        /\ req[o].kind = "upload" /\ req[o].status = 200
        /\ \E d \in documents : d.id = req[o].doc /\ d.filename = UpperPdfName

----------------------------------------------------------------------------
(* Properties of the partial updates *)

\* The fields that a request body carries, with their values (null included).
Carried(body) ==
    [f \in {g \in DOMAIN body : body[g] # UNSET} |->
        IF f = "is_primary" THEN body[f] = "true" ELSE body[f]]

\* Does row `new` hold the carried fields, and the fields of `old` everywhere
\* else?
SetsExactly(old, new, carried) ==
    /\ DOMAIN new = DOMAIN old
    /\ \A f \in DOMAIN old :
          new[f] = IF f \in DOMAIN carried THEN carried[f] ELSE old[f]

\* C17: a PATCH of a BillingNote, a PUT of an ExtractedCode or a PUT of an
\* ExtractedDiagnosis sets exactly the fields that the request carries, a field
\* given as null included, and leaves every other field of the row and every
\* other row as they were; when the row is not found nothing changes.
C17_SetsExactlyPresentFields ==
    [][/\ \A n \in NoteIdsNamed, b \in NoteBodies :
             UpdateNote(n, b) =>
                /\ \A x \in notes :
                      IF x.id = n
                      THEN \E y \in notes' : SetsExactly(x, y, Carried(b))
                      ELSE x \in notes'
                /\ Cardinality(notes') = Cardinality(notes)
                /\ UNCHANGED <<documents, codes, diags>>
       /\ \A n \in NoteIdsNamed, c \in CodeIdsNamed, b \in CodeBodies :
             UpdateCode(n, c, b) =>
                /\ \A x \in codes :
                      IF x.id = c /\ x.billing_note_id = n
                      THEN \E y \in codes' : SetsExactly(x, y, Carried(b))
                      ELSE x \in codes'
                /\ Cardinality(codes') = Cardinality(codes)
                /\ UNCHANGED <<documents, notes, diags>>
       /\ \A n \in NoteIdsNamed, g \in DiagIdsNamed, b \in DiagBodies :
             UpdateDiag(n, g, b) =>
                /\ \A x \in diags :
                      IF x.id = g /\ x.billing_note_id = n
                      THEN \E y \in diags' : SetsExactly(x, y, Carried(b))
                      ELSE x \in diags'
                /\ Cardinality(diags') = Cardinality(diags)
                /\ UNCHANGED <<documents, notes, codes>>]_vars

----------------------------------------------------------------------------
(* Properties of the listing *)

\* Does the string hold `part`, letter case aside?
ContainsIgnoringCase(string, part) ==
    \E i \in 0..(Len(string) - Len(part)) :
        Lower(SubSeq(string, i + 1, i + Len(part))) = Lower(part)

\* Is a filter given?  An empty value counts as no filter.
Given(filter) == filter.present /\ filter.chars # <<>>

\* The notes that the filters of a listing ask for: the status equal to the
\* status filter, when one is given, and the patient name holding the search
\* string, when one is given.
AskedFor(q) ==
    {x \in notes :
        /\ Given(q.status) => x.status = q.status.chars
        /\ Given(q.search) =>
              /\ x.patient_name.present
              /\ ContainsIgnoringCase(x.patient_name.chars, q.search.chars)}

\* C18: a listing with a status filter s returns only notes whose status is
\* exactly s, and returns the skip/limit window of the notes, newest first,
\* that have status s and satisfy the patient-name filter when one is given:
\* the two filters combine conjunctively; the listing changes no row.
C18_ListFiltersConjunctive ==
    /\ [][ListReturns => UNCHANGED <<documents, notes, codes, diags>>]_vars
    /\ [](( call.fn = "list_billing_notes" /\ call.done) =>
            LET q == call.arg
            IN  /\ Given(q.status) =>
                      \A i \in DOMAIN call.ret : call.ret[i].status = q.status.chars
                /\ call.ret = Window(NewestFirst(AskedFor(q)), q.skip, q.limit))

----------------------------------------------------------------------------
(* Properties of overlapping processing *)

\* The requests whose processing of Document d has succeeded.
SucceededOn(d) == {r \in ReqIds : AttemptSucceeded(r) /\ req[r].doc = d}

\* C19: processing requests on one Document are not coordinated.  Whatever the
\* interleaving, the Document has exactly one committed BillingNote per request
\* that has succeeded, each a note of its own with exactly the children of its
\* own request's extraction result.
C19_OneNotePerSucceededRequest ==
    \A d \in DocIds :
        /\ Cardinality(NotesOf(d)) = Cardinality(SucceededOn(d))
        /\ \A r1, r2 \in SucceededOn(d) : r1 # r2 => req[r1].respNote # req[r2].respNote
        /\ \A r \in SucceededOn(d) :
              LET e == req[r].ext
                  read == ReloadNote(req[r].respNote)
              IN  /\ \E n \in NotesOf(d) :
                        read.note = {n} /\ n.patient_name = e.patient_name
                  /\ Cardinality(read.extracted_codes) = Len(e.procedures)
                  /\ \A i \in 1..Len(e.procedures) :
                        \E c \in read.extracted_codes :
                           c.id = Uuid4("code", r, i)
                           /\ c.cpt_code_raw = e.procedures[i].cpt_code
                  /\ Cardinality(read.extracted_diagnoses) = Len(e.diagnoses)
                  /\ \A i \in 1..Len(e.diagnoses) :
                        \E g \in read.extracted_diagnoses :
                           g.id = Uuid4("diag", r, i)
                           /\ g.icd10_code_raw = e.diagnoses[i].icd10_code

\* C19 witness: the upload and two reprocess requests of its Document have all
\* succeeded; each found the Document without text and ran the text extractor
\* itself, and the Document has three notes, not all of the same extraction
\* result.
C19_Witness ==
    \E d \in DocIds :
        /\ SucceededOn(d) = ReqIds
        /\ \A r \in ReqIds : ~req[r].sawText /\ req[r].extractorRuns = 1
        /\ extractorCalls[d] = MaxReq
        /\ Cardinality(NotesOf(d)) = MaxReq
        /\ \E r1, r2 \in ReqIds : req[r1].ext # req[r2].ext

----------------------------------------------------------------------------
(* Properties of the canonical references *)

\* C20: in every state that orchestration, manual adds, edits, confirmations
\* and deletions reach, an ExtractedCode or ExtractedDiagnosis row with a
\* canonical reference has the code string of the reference row it points to,
\* and a manually added row has no canonical reference.
C20_ReferenceAgreesWithRawCode ==
    /\ \A c \in codes :
          /\ c.cpt_code_id # NULL =>
                \E ref \in CPTCodes : ref.id = c.cpt_code_id /\ ref.code = c.cpt_code_raw
          /\ c.id[2] = 0 => c.cpt_code_id = NULL
    /\ \A g \in diags :
          /\ g.icd10_code_id # NULL =>
                \E ref \in ICD10Codes : ref.id = g.icd10_code_id /\ ref.code = g.icd10_code_raw
          /\ g.id[2] = 0 => g.icd10_code_id = NULL

====
